---------------------------- MODULE Spec2Model ----------------------------
(***************************************************************************)
(* The dashboard script of SEMCL.ONE PyPI stats (docs/js dashboard,        *)
(* "organic" variant): loadStats fetches data/stats.json, parses it and    *)
(* renders the last-updated text, the summary cards and three charts.      *)
(*                                                                         *)
(* JSON values are modelled structurally.  An optional field is a sequence *)
(* of length 0 (the field is absent, JavaScript's undefined) or 1 (its     *)
(* value).  A facet is a record with a kind:                               *)
(*   "missing"  the package has no such facet                              *)
(*   "nodata"   the { } envelope is there, without a data member           *)
(*   "array"    data is an array (the member `data` holds its elements)    *)
(*   "object"   data is a truthy value that is not an array                *)
(***************************************************************************)
EXTENDS Integers, Sequences, FiniteSets, TLC

VARIABLES
    pc,                   \* where loadStats is
    response,             \* the Response the fetch resolved with, if any
    statsData,            \* the module-level statsData (line 3)
    lastUpdated,          \* textContent of #lastUpdated
    summaryCards,         \* innerHTML of #summaryCards
    trendsChart,          \* the Chart on #trendsChart, if created
    allDates,             \* the Set renderTrendsChart collects
    pythonVersionsChart,  \* the Chart on #pythonVersionsChart, if created
    systemsChart,         \* the Chart on #systemsChart, if created
    console,              \* what console.error has logged
    fetches               \* number of requests issued for data/stats.json

vars == <<pc, response, statsData, lastUpdated, summaryCards, trendsChart,
          allDates, pythonVersionsChart, systemsChart, console, fetches>>

----------------------------------------------------------------------------
(* Bounds of the model. *)

\* longest data array of a facet that is enumerated exhaustively
MaxLen == 2
\* largest number of packages in a snapshot
MaxPkgs == 2
\* number of distinct categories in the widest categorical facet
MaxWide == 12

----------------------------------------------------------------------------
(* JavaScript values. *)

None == <<>>
Some(v) == <<v>>
IsSome(o) == o # <<>>
Val(o) == o[1]

\* ToBoolean of an optional string: undefined and "" are falsy
TruthyStr(o) == IsSome(o) /\ Val(o) # ""

\* ToBoolean of an optional number: undefined and 0 are falsy
TruthyNum(o) == IsSome(o) /\ Val(o) # 0

\* `n || 0` for an optional number
OrZero(o) == IF TruthyNum(o) THEN Val(o) ELSE 0

Min(a, b) == IF a < b THEN a ELSE b

\* s.slice(0, n)
Slice(s, n) == SubSeq(s, 1, Min(n, Len(s)))

Range(s) == {s[i] : i \in 1..Len(s)}

\* all sequences over S of length at most n
SeqsUpTo(S, n) == UNION {[1..k -> S] : k \in 0..n}

RECURSIVE SumSeq(_)
SumSeq(s) == IF s = <<>> THEN 0 ELSE s[1] + SumSeq(Tail(s))

----------------------------------------------------------------------------
(* Strings: collation, number formatting, property order. *)

\* The UTF-16 code units of the strings the model compares.  undefined is
\* converted to the string "undefined" when it is localeCompare's argument.
CodeUnits(s) ==
    CASE s = "2025-01-01" -> <<50, 48, 50, 53, 45, 48, 49, 45, 48, 49>>
      [] s = "2025-01-02" -> <<50, 48, 50, 53, 45, 48, 49, 45, 48, 50>>
      [] s = "2024-12-31" -> <<50, 48, 50, 52, 45, 49, 50, 45, 51, 49>>
      [] s = "undefined"  -> <<117, 110, 100, 101, 102, 105, 110, 101, 100>>

\* Comparison of two code-unit sequences: negative, zero or positive.  On
\* digits, "-" and lower-case letters the locale's collation orders strings
\* as their code units do.
RECURSIVE LexCompare(_, _)
LexCompare(u, v) ==
    IF u = <<>> /\ v = <<>> THEN 0
    ELSE IF u = <<>> THEN -1
    ELSE IF v = <<>> THEN 1
    ELSE IF u[1] # v[1] THEN u[1] - v[1]
    ELSE LexCompare(Tail(u), Tail(v))

\* ToString of localeCompare's argument
ToStr(o) == IF IsSome(o) THEN Val(o) ELSE "undefined"

\* a.localeCompare(b), for a receiver that is a string; b may be undefined
LocaleCompare(a, b) == LexCompare(CodeUnits(a), CodeUnits(ToStr(b)))

\* n.toLocaleString(): the digit groups between the separators, 1234567 as
\* <<1, 234, 567>>
RECURSIVE ToLocaleString(_)
ToLocaleString(n) ==
    IF n < 1000 THEN <<n>> ELSE Append(ToLocaleString(n \div 1000), n % 1000)

\* formatNumber(num), num an optional number
formatNumber(num) ==
    IF ~TruthyNum(num) THEN <<0>> ELSE ToLocaleString(Val(num))

\* The value of a property key that is a canonical array index, -1 for any
\* other key.
ArrayIndex(k) ==
    CASE k = "2" -> 2
      [] k = "3" -> 3
      [] k = "7" -> 7
      [] OTHER -> -1

RECURSIVE AscendingIndexKeys(_)
AscendingIndexKeys(K) ==
    IF K = {} THEN <<>>
    ELSE LET k == CHOOSE x \in K : \A y \in K : ArrayIndex(x) <= ArrayIndex(y)
         IN  <<k>> \o AscendingIndexKeys(K \ {k})

IsIndexKey(k) == ArrayIndex(k) >= 0
IsNameKey(k) == ArrayIndex(k) < 0

\* The order in which Object.entries / Object.values enumerate an object
\* whose keys were created in the order `keys`: array-index keys ascending,
\* then the other keys in creation order.
OwnKeys(keys) ==
    AscendingIndexKeys({k \in Range(keys) : IsIndexKey(k)})
        \o SelectSeq(keys, IsNameKey)

----------------------------------------------------------------------------
(* renderTrendsChart: the data series of one package. *)

\* `facet?.data || []` when that value is an array
DataOrEmpty(facet) == IF facet.kind = "array" THEN facet.data ELSE <<>>

\* `facet?.data || []` is a truthy value without array methods
NotAnArray(facet) == facet.kind = "object"

\* Faulty variant of the filter callback: the condition negated
KeepPointNegated(d) == TruthyStr(d.category) /\ d.category # Some("without_mirrors")

\* the filter callback: d => !d.category || d.category === 'without_mirrors'
KeepPoint(d) == ~TruthyStr(d.category) \/ d.category = Some("without_mirrors")

\* the map callback's result: { x: d.date, y: d.downloads || 0 }
MapPoint(d) == [x |-> d.date, y |-> OrZero(d.downloads)]

RECURSIVE MapPoints(_)
MapPoints(s) ==
    IF s = <<>> THEN <<>> ELSE <<MapPoint(s[1])>> \o MapPoints(Tail(s))

\* overall.filter(...).map(...), before the sort
FilterMap(overall) == MapPoints(SelectSeq(overall, KeepPoint))

\* the sort comparator (a, b) => a.x.localeCompare(b.x), a.x a string
CompareX(a, b) == LocaleCompare(Val(a.x), b.x)

\* Faulty variant of the insertion: p goes before the elements that compare
\* equal to it, which reverses the points of one date
RECURSIVE InsertByXBeforeEqual(_, _)
InsertByXBeforeEqual(s, p) ==
    IF s = <<>> THEN <<p>>
    ELSE IF IsSome(s[Len(s)].x) /\ CompareX(s[Len(s)], p) < 0
         THEN Append(s, p)
         ELSE Append(InsertByXBeforeEqual(SubSeq(s, 1, Len(s) - 1), p), s[Len(s)])

\* Array.prototype.sort is stable: x goes after every element that does not
\* compare greater than it.
RECURSIVE InsertByX(_, _)
InsertByX(s, p) ==
    IF s = <<>> THEN <<p>>
    ELSE IF IsSome(s[Len(s)].x) /\ CompareX(s[Len(s)], p) <= 0
         THEN Append(s, p)
         ELSE Append(InsertByX(SubSeq(s, 1, Len(s) - 1), p), s[Len(s)])

RECURSIVE SortByX(_)
SortByX(s) ==
    IF s = <<>> THEN <<>>
    ELSE InsertByX(SortByX(SubSeq(s, 1, Len(s) - 1)), s[Len(s)])

\* the points of s whose x is undefined
Undated(s) == {i \in 1..Len(s) : ~IsSome(s[i].x)}

\* The comparator throws a TypeError when it is called with a first argument
\* whose x is undefined.  sort calls it only for two or more elements.  Which
\* element of a comparison is the first argument is up to the engine, so one
\* undated point among dated ones may or may not throw; two undated points
\* have to be compared with each other, and that throws.
SortMayThrow(s) == Len(s) >= 2 /\ Cardinality(Undated(s)) >= 1
SortMustThrow(s) == Len(s) >= 2 /\ Cardinality(Undated(s)) >= 2

\* overall with its elements reordered by date, as a sort called on it does
SortedByDate(overall) ==
    LET keyed == SortByX([i \in 1..Len(overall) |-> [x |-> overall[i].date, y |-> i]])
    IN  [i \in 1..Len(overall) |-> overall[keyed[i].y]]

\* Faulty variant of the chain: the sort called on overall itself, before
\* the filter
ChainArraysSortedInPlace(overall) ==
    [overall  |-> SortedByDate(overall),
     filtered |-> SelectSeq(SortedByDate(overall), KeepPoint),
     mapped   |-> MapPoints(SelectSeq(SortedByDate(overall), KeepPoint))]

\* The arrays of the chain overall.filter(...).map(...).sort(...) once it has
\* run, when nothing throws.  filter and map each return a new array; sort
\* reorders the array it is called on, the one map returned, and returns it.
ChainArrays(overall) ==
    LET afterFilter == [overall  |-> overall,
                        filtered |-> SelectSeq(overall, KeepPoint)]
        afterMap == [overall  |-> afterFilter.overall,
                     filtered |-> afterFilter.filtered,
                     mapped   |-> MapPoints(afterFilter.filtered)]
    IN  [afterMap EXCEPT !.mapped = SortByX(@)]

\* the dataPoints of one package, when nothing throws
dataPoints(pkgData) == ChainArrays(DataOrEmpty(pkgData.overall)).mapped

\* the package's overall facet once the callback has run
OverallAfter(facet) ==
    IF facet.kind = "array"
    THEN [facet EXCEPT !.data = ChainArrays(facet.data).overall]
    ELSE facet

TrendsMayThrow(pkgData) ==
    \/ NotAnArray(pkgData.overall)
    \/ SortMayThrow(FilterMap(DataOrEmpty(pkgData.overall)))

TrendsMustThrow(pkgData) ==
    \/ NotAnArray(pkgData.overall)
    \/ SortMustThrow(FilterMap(DataOrEmpty(pkgData.overall)))

----------------------------------------------------------------------------
(* Object.entries(packages), and the categorical totals. *)

\* Object.entries(packages): the packages (records with their name) in
\* property order; `packages` lists them in document order.
RECURSIVE PickByName(_, _)
PickByName(packages, names) ==
    IF names = <<>> THEN <<>>
    ELSE LET i == CHOOSE j \in 1..Len(packages) : packages[j].name = names[1]
         IN  <<packages[i]>> \o PickByName(packages, Tail(names))

PackageNames(packages) == [i \in 1..Len(packages) |-> packages[i].name]

\* Faulty variant of the enumeration: the packages as the document lists them
ObjectEntriesAsWritten(packages) == packages

ObjectEntries(packages) == PickByName(packages, OwnKeys(PackageNames(packages)))

\* Faulty variant of the guard: the comparison with 'null' left out
CountsItemAnyCategory(item) == TruthyStr(item.category)

\* the guard: item.category && item.category !== 'null'
CountsItem(item) == TruthyStr(item.category) /\ item.category # Some("null")

\* totals: the object's properties <<key, value>> in creation order
HasKey(totals, k) == \E i \in 1..Len(totals) : totals[i][1] = k

\* Faulty variant of the accumulation: = in place of +=
AddItemOverwrite(totals, item) ==
    LET c == Val(item.category)
        n == OrZero(item.downloads)
    IN  IF HasKey(totals, c)
        THEN [i \in 1..Len(totals) |-> IF totals[i][1] = c THEN <<c, n>> ELSE totals[i]]
        ELSE Append(totals, <<c, n>>)

\* totals[c] = (totals[c] || 0) + (item.downloads || 0)
AddItem(totals, item) ==
    LET c == Val(item.category)
        n == OrZero(item.downloads)
    IN  IF HasKey(totals, c)
        THEN [i \in 1..Len(totals) |->
                 IF totals[i][1] = c THEN <<c, totals[i][2] + n>> ELSE totals[i]]
        ELSE Append(totals, <<c, n>>)

\* data.forEach(item => { if (...) totals[...] = ... })
RECURSIVE AddItems(_, _)
AddItems(totals, data) ==
    IF data = <<>> THEN totals
    ELSE AddItems(IF CountsItem(data[1]) THEN AddItem(totals, data[1]) ELSE totals,
                  Tail(data))

\* Object.values(packages).forEach(pkgData => ...) over facet `facet`
RECURSIVE AddPackages(_, _, _)
AddPackages(totals, pkgs, facet) ==
    IF pkgs = <<>> THEN totals
    ELSE AddPackages(AddItems(totals, DataOrEmpty(pkgs[1][facet])), Tail(pkgs), facet)

CategoryTotals(packages, facet) == AddPackages(<<>>, ObjectEntries(packages), facet)

\* Object.entries(totals): the <<key, value>> pairs in property order
RECURSIVE PickByKey(_, _)
PickByKey(totals, keys) ==
    IF keys = <<>> THEN <<>>
    ELSE LET i == CHOOSE j \in 1..Len(totals) : totals[j][1] = keys[1]
         IN  <<totals[i]>> \o PickByKey(totals, Tail(keys))

TotalsEntries(totals) ==
    PickByKey(totals, OwnKeys([i \in 1..Len(totals) |-> totals[i][1]]))

\* the sort comparator (a, b) => b[1] - a[1]
CompareTotal(a, b) == b[2] - a[2]

\* Faulty variant of the insertion: e goes before the entries that compare
\* equal to it, which reverses the entries of one total
RECURSIVE InsertByTotalBeforeEqual(_, _)
InsertByTotalBeforeEqual(s, e) ==
    IF s = <<>> THEN <<e>>
    ELSE IF CompareTotal(s[Len(s)], e) < 0
         THEN Append(s, e)
         ELSE Append(InsertByTotalBeforeEqual(SubSeq(s, 1, Len(s) - 1), e), s[Len(s)])

RECURSIVE InsertByTotal(_, _)
InsertByTotal(s, e) ==
    IF s = <<>> THEN <<e>>
    ELSE IF CompareTotal(s[Len(s)], e) <= 0
         THEN Append(s, e)
         ELSE Append(InsertByTotal(SubSeq(s, 1, Len(s) - 1), e), s[Len(s)])

RECURSIVE SortByTotal(_)
SortByTotal(s) ==
    IF s = <<>> THEN <<>>
    ELSE InsertByTotal(SortByTotal(SubSeq(s, 1, Len(s) - 1)), s[Len(s)])

\* .slice(0, 10) of renderPythonVersionsChart
TopN == 10

\* Faulty variant of sortedVersions: the slice left out
sortedVersionsUncut(packages) ==
    SortByTotal(TotalsEntries(CategoryTotals(packages, "python_versions")))

\* sortedVersions
sortedVersions(packages) ==
    Slice(SortByTotal(TotalsEntries(CategoryTotals(packages, "python_versions"))), TopN)

\* sortedSystems
sortedSystems(packages) ==
    SortByTotal(TotalsEntries(CategoryTotals(packages, "system")))

\* data.forEach is not a function
CategoricalThrows(packages, facet) ==
    \E i \in 1..Len(packages) : NotAnArray(packages[i][facet])

----------------------------------------------------------------------------
(* renderSummaryCards: the card of one package. *)

RecentFields ==
    {"last_day", "last_week", "last_month", "last_day_without_mirrors",
     "last_week_without_mirrors", "last_month_without_mirrors"}

NoRecent == [f \in RecentFields |-> None]

\* pkgData.recent?.data || {}
RecentData(pkgData) ==
    IF pkgData.recent.kind = "object" THEN pkgData.recent.data ELSE NoRecent

\* Faulty variant of the six constants: the three organic ones never read
RecentWindowTotalsOnly(pkgData) ==
    [f \in RecentFields |->
        IF f \in {"last_day", "last_week", "last_month"}
        THEN OrZero(RecentData(pkgData)[f]) ELSE 0]

\* lastDay, lastWeek, lastMonth, lastDayWithout, lastWeekWithout,
\* lastMonthWithout: recent.<field> || 0
RecentWindow(pkgData) == [f \in RecentFields |-> OrZero(RecentData(pkgData)[f])]

\* the package-card: the name and the six formatted numbers
PackageCard(pkg) ==
    [name  |-> pkg.name,
     stats |-> [f \in RecentFields |-> formatNumber(Some(RecentWindow(pkg)[f]))]]

----------------------------------------------------------------------------
(* The snapshots data/stats.json may hold. *)

Missing == [kind |-> "missing", data |-> <<>>]
NoData == [kind |-> "nodata", data |-> <<>>]
ObjectData == [kind |-> "object", data |-> <<>>]
ArrayData(s) == [kind |-> "array", data |-> s]

MissingRecent == [kind |-> "missing", data |-> NoRecent]
NoDataRecent == [kind |-> "nodata", data |-> NoRecent]
Recent(r) == [kind |-> "object", data |-> r]

Package(n, r, o, p, s) ==
    [name |-> n, recent |-> r, overall |-> o, python_versions |-> p, system |-> s]

ValidTimestamp == "2025-01-15T06:00:00Z"

Snapshot(t, pkgs) == [last_updated |-> t, packages |-> pkgs]

\* a snapshot with a parseable timestamp and the given packages
Valid(pkgs) == Snapshot(Some(ValidTimestamp), Some(pkgs))

DailyPoints ==
    [date      : {None, Some("2025-01-01"), Some("2025-01-02")},
     downloads : {None, Some(3)},
     category  : {None, Some(""), Some("without_mirrors"), Some("with_mirrors")}]

FewDailyPoints ==
    [date      : {Some("2025-01-01"), Some("2024-12-31")},
     downloads : {Some(3)},
     category  : {None, Some("with_mirrors")}]

VersionCounts ==
    [category  : {None, Some(""), Some("null"), Some("3.9"), Some("3.10"), Some("3")},
     downloads : {None, Some(1), Some(2)}]

SystemCounts ==
    [category  : {None, Some("null"), Some("Linux"), Some("Darwin")},
     downloads : {None, Some(1), Some(2)}]

FewCounts ==
    [category  : {Some("null"), Some("3.9"), Some("3.10"), Some("3")},
     downloads : {Some(1), Some(2)}]

\* a facet without an array
NoArray == {Missing, NoData, ObjectData}

\* the facets of the many-package snapshots: missing, empty or one element
FewFacets(S) == {Missing} \cup {ArrayData(s) : s \in SeqsUpTo(S, 1)}

RecentWindows ==
    {MissingRecent, NoDataRecent} \cup
    {Recent(r) : r \in
        [last_day                   : {None, Some(0), Some(100)},
         last_week                  : {None, Some(700)},
         last_month                 : {None, Some(1234567)},
         last_day_without_mirrors   : {None, Some(50)},
         last_week_without_mirrors  : {None, Some(350)},
         last_month_without_mirrors : {None, Some(2100)}]}

\* names of n packages in document order; "7" and "3" are array-index keys
BaseNames == <<"osslili", "upmex", "purl2src", "vulnq", "ospac">>
NameSeqs(n) ==
    IF n = 0 THEN {<<>>}
    ELSE {SubSeq(BaseNames, 1, n), Append(SubSeq(BaseNames, 1, n - 1), "7")}
         \cup (IF n >= 2 THEN {SubSeq(BaseNames, 1, n - 2) \o <<"7", "3">>} ELSE {})

\* one package with one facet
OneRecent(r) == Valid(<<Package("osslili", r, Missing, Missing, Missing)>>)
OneOverall(o) == Valid(<<Package("osslili", MissingRecent, o, Missing, Missing)>>)
OneVersions(p) == Valid(<<Package("osslili", MissingRecent, Missing, p, Missing)>>)
OneSystem(y) == Valid(<<Package("osslili", MissingRecent, Missing, Missing, y)>>)

\* n packages with the given names and overall facets
ManyOverall(names, o) ==
    Valid([i \in 1..Len(names) |->
             Package(names[i], MissingRecent, o[i], Missing, Missing)])

\* n packages with the given names and the same counts in both categorical facets
ManyCounts(names, c) ==
    Valid([i \in 1..Len(names) |->
             Package(names[i], MissingRecent, Missing, c[i], c[i])])

\* a facet with k distinct categories, to reach the cut at TopN
VersionNames ==
    <<"3.14", "3.13", "3.12", "3.11", "3.10", "3.9", "3.8", "3.7", "3.6", "3.5",
      "3.4", "3", "2.7", "2", "3.15", "3.16">>

WideDownloads(pattern, i) ==
    CASE pattern = "rising"  -> i
      [] pattern = "falling" -> 20 - i
      [] pattern = "equal"   -> 5
      [] pattern = "mixed"   -> ((i * 5) % 7) + 1

WideFacet(k, pattern) ==
    ArrayData([i \in 1..k |->
        [category |-> Some(VersionNames[i]), downloads |-> Some(WideDownloads(pattern, i))]])

WidePatterns == {"rising", "falling", "equal", "mixed"}

WideSnapshot(k, pattern) ==
    Valid(<<Package("osslili", MissingRecent, Missing,
                    WideFacet(k, pattern), WideFacet(k, pattern))>>)

\* the scenarios of the documentation: every facet filled in
FullPackage(n, d) ==
    Package(n,
        Recent([NoRecent EXCEPT !.last_day = Some(100), !.last_week = Some(700)]),
        ArrayData(<<[date |-> Some("2025-01-02"), downloads |-> Some(5), category |-> None],
                    [date |-> Some("2025-01-01"), downloads |-> Some(3),
                     category |-> Some("with_mirrors")],
                    [date |-> Some("2025-01-01"), downloads |-> Some(2), category |-> None]>>),
        ArrayData(<<[category |-> Some("3.9"), downloads |-> Some(50)],
                    [category |-> Some("3.10"), downloads |-> Some(80 - d)],
                    [category |-> Some("null"), downloads |-> Some(999)]>>),
        ArrayData(<<[category |-> Some("Linux"), downloads |-> Some(90)],
                    [category |-> Some("Darwin"), downloads |-> Some(40 + d)]>>))

FullPackages == <<FullPackage("osslili", 0), FullPackage("upmex", 60)>>

\* the root document: last_updated valid, unparseable or missing, with no
\* packages or with every facet filled in; and a document without `packages`
RootSnapshots ==
    {Snapshot(t, Some(pkgs)) :
        t \in {None, Some(ValidTimestamp), Some("yesterday")},
        pkgs \in {<<>>, FullPackages}}
    \cup {Snapshot(Some(ValidTimestamp), None)}

----------------------------------------------------------------------------
(* The page. *)

EmptyCards == [html |-> "empty", cards |-> <<>>, message |-> ""]

Init ==
    /\ pc = "idle"
    /\ response = None
    /\ statsData = None
    /\ lastUpdated = None
    /\ summaryCards = EmptyCards
    /\ trendsChart = None
    /\ allDates = {}
    /\ pythonVersionsChart = None
    /\ systemsChart = None
    /\ console = <<>>
    /\ fetches = 0

\* Faulty variant of the catch block: after reporting the error, the page is
\* back where the load starts again
CatchAndRetry(error) ==
    /\ console' = Append(console, error)
    /\ summaryCards' = [html |-> "error", cards |-> <<>>, message |-> error.message]
    /\ pc' = "idle"

\* the catch block of loadStats: console.error, and the message replaces the
\* content of #summaryCards
Catch(error) ==
    /\ console' = Append(console, error)
    /\ summaryCards' = [html |-> "error", cards |-> <<>>, message |-> error.message]
    /\ pc' = "done"

HttpStatuses == {200, 404, 500}

HttpErrorMessage(status) ==
    CASE status = 404 -> "HTTP error! status: 404"
      [] status = 500 -> "HTTP error! status: 500"
      [] OTHER -> "HTTP error! status"

\* document.addEventListener('DOMContentLoaded', loadStats): loadStats runs
\* to its first await
DOMContentLoaded ==
    /\ pc = "idle"
    /\ pc' = "fetch"
    /\ fetches' = fetches + 1
    /\ UNCHANGED <<response, statsData, lastUpdated, summaryCards, trendsChart,
                   allDates, pythonVersionsChart, systemsChart, console>>

\* fetch rejects: the resource is unreachable
FetchRejects ==
    /\ pc = "fetch"
    /\ Catch([name |-> "TypeError", message |-> "Failed to fetch"])
    /\ UNCHANGED <<response, statsData, lastUpdated, trendsChart, allDates,
                   pythonVersionsChart, systemsChart, fetches>>

\* Faulty variant of the continuation after fetch: response.ok not tested
FetchResolvesUnchecked ==
    /\ pc = "fetch"
    /\ \E status \in HttpStatuses :
        response' = Some([ok |-> status \in 200..299, status |-> status])
    /\ pc' = "json"
    /\ UNCHANGED <<statsData, lastUpdated, summaryCards, trendsChart, allDates,
                   pythonVersionsChart, systemsChart, console, fetches>>

\* fetch resolves with a response; !response.ok throws
FetchResolves ==
    /\ pc = "fetch"
    /\ \E status \in HttpStatuses :
        LET ok == status \in 200..299 IN
        /\ response' = Some([ok |-> ok, status |-> status])
        /\ IF ok
           THEN /\ pc' = "json"
                /\ UNCHANGED <<summaryCards, console>>
           ELSE Catch([name |-> "Error", message |-> HttpErrorMessage(status)])
    /\ UNCHANGED <<statsData, lastUpdated, trendsChart, allDates,
                   pythonVersionsChart, systemsChart, fetches>>

\* response.json() rejects: the body is not JSON
JsonRejects ==
    /\ pc = "json"
    /\ Catch([name |-> "SyntaxError", message |-> "Unexpected token"])
    /\ UNCHANGED <<response, statsData, lastUpdated, trendsChart, allDates,
                   pythonVersionsChart, systemsChart, fetches>>

\* the document response.json() resolves with
Parsed(doc) == statsData' = Some(doc)

\* statsData = await response.json()
JsonResolves ==
    /\ pc = "json"
    /\ \/ \E doc \in RootSnapshots : Parsed(doc)
       \/ \E r \in RecentWindows : Parsed(OneRecent(r))
       \/ \E f \in NoArray :
            Parsed(OneOverall(f)) \/ Parsed(OneVersions(f)) \/ Parsed(OneSystem(f))
       \/ \E k \in 0..MaxLen : \E s \in [1..k -> DailyPoints] :
            Parsed(OneOverall(ArrayData(s)))
       \/ \E k \in 0..MaxLen : \E s \in [1..k -> VersionCounts] :
            Parsed(OneVersions(ArrayData(s)))
       \/ \E k \in 0..MaxLen : \E s \in [1..k -> SystemCounts] :
            Parsed(OneSystem(ArrayData(s)))
       \/ \E n \in 0..MaxPkgs : \E names \in NameSeqs(n) :
            \E o \in [1..n -> FewFacets(FewDailyPoints)] : Parsed(ManyOverall(names, o))
       \/ \E n \in 0..MaxPkgs : \E names \in NameSeqs(n) :
            \E c \in [1..n -> FewFacets(FewCounts)] : Parsed(ManyCounts(names, c))
       \/ \E k \in (TopN - 1)..MaxWide : \E pattern \in WidePatterns :
            Parsed(WideSnapshot(k, pattern))
    /\ pc' = "updateLastUpdated"
    /\ UNCHANGED <<response, lastUpdated, summaryCards, trendsChart, allDates,
                   pythonVersionsChart, systemsChart, console, fetches>>

\* new Date(timestamp).toLocaleString('en-US', {...}): an unparseable or
\* missing timestamp makes an Invalid Date, whose toLocaleString does not
\* throw
DateToLocaleString(timestamp) ==
    IF timestamp = Some(ValidTimestamp)
    THEN "January 15, 2025 at 06:00 AM UTC"
    ELSE "Invalid Date"

\* updateLastUpdated(statsData.last_updated)
updateLastUpdated ==
    /\ pc = "updateLastUpdated"
    /\ lastUpdated' =
         Some(<<"Last updated: ", DateToLocaleString(Val(statsData).last_updated)>>)
    /\ pc' = "renderSummaryCards"
    /\ UNCHANGED <<response, statsData, summaryCards, trendsChart, allDates,
                   pythonVersionsChart, systemsChart, console, fetches>>

\* Object.entries(undefined) and Object.values(undefined) throw
NoPackages == ~IsSome(Val(statsData).packages)
Packages == Val(Val(statsData).packages)

CannotConvert == [name |-> "TypeError",
                  message |-> "Cannot convert undefined or null to object"]
NotAFunction == [name |-> "TypeError", message |-> "is not a function"]
CannotRead == [name |-> "TypeError", message |-> "Cannot read properties of undefined"]

\* the innerHTML renderSummaryCards builds
SummaryHtml(packages) ==
    LET entries == ObjectEntries(packages)
    IN  [html |-> "cards",
         cards |-> [i \in 1..Len(entries) |-> PackageCard(entries[i])],
         message |-> ""]

\* renderSummaryCards(statsData.packages)
renderSummaryCards ==
    /\ pc = "renderSummaryCards"
    /\ IF NoPackages
       THEN Catch(CannotConvert)
       ELSE /\ summaryCards' = SummaryHtml(Packages)
            /\ pc' = "renderTrendsChart"
            /\ UNCHANGED console
    /\ UNCHANGED <<response, statsData, lastUpdated, trendsChart, allDates,
                   pythonVersionsChart, systemsChart, fetches>>

\* the color palette
COLORS ==
    <<"#9B0002", "#C50003", "#7A0001", "#E60004",
      "#B85C00", "#D47300", "#8B4500", "#FF8C00",
      "#0A6E0A", "#0D8F0D", "#085808", "#10B010",
      "#666666", "#808080", "#4D4D4D", "#999999">>

\* the dataset pushed for the package at (0-based) position index
Dataset(pkg, index) ==
    [label       |-> pkg.name,
     data        |-> dataPoints(pkg),
     borderColor |-> COLORS[(index % Len(COLORS)) + 1]]

\* Faulty variant of the end of the callback: the length test left out
PushDatasetAlways(pkg, index) == <<Dataset(pkg, index)>>

\* the end of the forEach callback: if (dataPoints.length > 0) datasets.push(...)
PushDataset(pkg, index) ==
    IF Len(dataPoints(pkg)) > 0 THEN <<Dataset(pkg, index)>> ELSE <<>>

\* Object.entries(packages).forEach(([pkgName, pkgData], index) => ...)
RECURSIVE datasets(_, _)
datasets(entries, index) ==
    IF index >= Len(entries) THEN <<>>
    ELSE PushDataset(entries[index + 1], index) \o datasets(entries, index + 1)

\* Faulty variant of the collection: the dates of all points, filtered or not
DatesAddedUnfiltered(entries) ==
    UNION {{p.date : p \in Range(DataOrEmpty(entries[i].overall))} :
             i \in 1..Len(entries)}

\* the dates allDates.add(d.date) has seen: of the points that pass the filter
DatesAdded(entries) ==
    UNION {{p.x : p \in Range(FilterMap(DataOrEmpty(entries[i].overall)))} :
             i \in 1..Len(entries)}

\* what the package's callback throws, if it throws
TrendsError(pkgData) == IF NotAnArray(pkgData.overall) THEN NotAFunction ELSE CannotRead

\* statsData once every package's callback has run: the arrays the
\* callbacks were given, as the chain leaves them
SnapshotAfterTrends ==
    [Val(statsData) EXCEPT !.packages =
        Some([i \in 1..Len(Packages) |->
                [Packages[i] EXCEPT !.overall = OverallAfter(@)]])]

\* renderTrendsChart(statsData.packages)
renderTrendsChart ==
    /\ pc = "renderTrendsChart"
    /\ LET entries == ObjectEntries(Packages) IN
       \/ \E i \in 1..Len(entries) :
            /\ TrendsMayThrow(entries[i])
            /\ \A j \in 1..(i - 1) : ~TrendsMustThrow(entries[j])
            /\ Catch(TrendsError(entries[i]))
            /\ UNCHANGED <<trendsChart, allDates, statsData>>
       \/ /\ \A i \in 1..Len(entries) : ~TrendsMustThrow(entries[i])
          /\ allDates' = DatesAdded(entries)
          /\ trendsChart' = Some([type |-> "line", datasets |-> datasets(entries, 0)])
          /\ statsData' = Some(SnapshotAfterTrends)
          /\ pc' = "renderPythonVersionsChart"
          /\ UNCHANGED <<summaryCards, console>>
    /\ UNCHANGED <<response, lastUpdated, pythonVersionsChart, systemsChart, fetches>>

\* the chart's labels and data: sorted.map(v => v[0]), sorted.map(v => v[1])
Labels(sorted) == [i \in 1..Len(sorted) |-> sorted[i][1]]
Totals(sorted) == [i \in 1..Len(sorted) |-> sorted[i][2]]

\* renderPythonVersionsChart(statsData.packages)
renderPythonVersionsChart ==
    /\ pc = "renderPythonVersionsChart"
    /\ IF CategoricalThrows(Packages, "python_versions")
       THEN /\ Catch(NotAFunction)
            /\ UNCHANGED pythonVersionsChart
       ELSE /\ pythonVersionsChart' =
                 Some([type   |-> "bar",
                       labels |-> Labels(sortedVersions(Packages)),
                       data   |-> Totals(sortedVersions(Packages))])
            /\ pc' = "renderSystemsChart"
            /\ UNCHANGED <<summaryCards, console>>
    /\ UNCHANGED <<response, statsData, lastUpdated, trendsChart, allDates,
                   systemsChart, fetches>>

\* renderSystemsChart(statsData.packages)
renderSystemsChart ==
    /\ pc = "renderSystemsChart"
    /\ IF CategoricalThrows(Packages, "system")
       THEN /\ Catch(NotAFunction)
            /\ UNCHANGED systemsChart
       ELSE /\ systemsChart' =
                 Some([type   |-> "doughnut",
                       labels |-> Labels(sortedSystems(Packages)),
                       data   |-> Totals(sortedSystems(Packages))])
            /\ pc' = "done"
            /\ UNCHANGED <<summaryCards, console>>
    /\ UNCHANGED <<response, statsData, lastUpdated, trendsChart, allDates,
                   pythonVersionsChart, fetches>>

Next ==
    \/ DOMContentLoaded
    \/ FetchRejects
    \/ FetchResolves
    \/ JsonRejects
    \/ JsonResolves
    \/ updateLastUpdated
    \/ renderSummaryCards
    \/ renderTrendsChart
    \/ renderPythonVersionsChart
    \/ renderSystemsChart

Spec == Init /\ [][Next]_vars

----------------------------------------------------------------------------
(* Properties. *)

\* the packages of the loaded snapshot, in document order
Loaded == IsSome(statsData) /\ IsSome(Val(statsData).packages)

CountIn(s, e) == Cardinality({i \in 1..Len(s) : s[i] = e})

\* every element occurs in s at most as often as in t
SubBag(s, t) == \A e \in Range(s) : CountIn(s, e) <= CountIn(t, e)

\* the data of the dataset labelled name; empty when there is none
SeriesOf(name) ==
    LET ds == Val(trendsChart).datasets
    IN  IF \E i \in 1..Len(ds) : ds[i].label = name
        THEN ds[CHOOSE i \in 1..Len(ds) : ds[i].label = name].data
        ELSE <<>>

\* dates ascending by string comparison
NonDecreasing(series) ==
    \A i, j \in 1..Len(series) :
        (i < j /\ IsSome(series[i].x) /\ IsSome(series[j].x))
            => LexCompare(CodeUnits(Val(series[i].x)), CodeUnits(Val(series[j].x))) <= 0

CategoryAbsent(d) == d.category = None
CategoryEmpty(d) == d.category = Some("")
CategoryOrganic(d) == d.category = Some("without_mirrors")

OrganicStrict(d) == CategoryAbsent(d) \/ CategoryOrganic(d)
OrganicOrEmpty(d) == CategoryAbsent(d) \/ CategoryEmpty(d) \/ CategoryOrganic(d)

\* (date, downloads) of each point, downloads 0 when absent
AsSeries(points) ==
    [i \in 1..Len(points) |->
        [x |-> points[i].date,
         y |-> IF points[i].downloads = None THEN 0 ELSE Val(points[i].downloads)]]

\* C1 as stated: every series of the trends chart is non-decreasing in date
\* and holds only points whose category was absent or "without_mirrors".
C1_Original ==
    IsSome(trendsChart) =>
        \A i \in 1..Len(Packages) :
            LET series == SeriesOf(Packages[i].name)
                points == Packages[i].overall.data
            IN  /\ NonDecreasing(series)
                /\ SubBag(series, AsSeries(SelectSeq(points, OrganicStrict)))

\* C1 amended: every series of the trends chart is non-decreasing in date
\* and holds only points whose category was absent, the empty string or
\* "without_mirrors"; a point with any other category is excluded.
C1_SeriesSortedAndFiltered ==
    IsSome(trendsChart) =>
        \A i \in 1..Len(Packages) :
            LET series == SeriesOf(Packages[i].name)
                points == Packages[i].overall.data
            IN  /\ NonDecreasing(series)
                /\ SubBag(series, AsSeries(SelectSeq(points, OrganicOrEmpty)))

\* the scenario of the documentation: three points out of order, one of them
\* with_mirrors, give the two organic points in ascending order
C1_Witness ==
    /\ IsSome(trendsChart)
    /\ Len(Packages) = 2
    /\ Len(Packages[1].overall.data) = 3
    /\ SeriesOf(Packages[1].name) =
          <<[x |-> Some("2025-01-01"), y |-> 2], [x |-> Some("2025-01-02"), y |-> 5]>>

\* the sum of downloads (0 when absent) of the entries of category c
SumOfCategory(packages, facet, c) ==
    SumSeq([i \in 1..Len(packages) |->
        SumSeq([j \in 1..Len(packages[i][facet].data) |->
            LET item == packages[i][facet].data[j]
            IN  IF item.category = Some(c) /\ item.downloads # None
                THEN Val(item.downloads) ELSE 0])])

\* the categories of the facet's entries, over all packages
CategoriesIn(packages, facet) ==
    UNION {{Val(packages[i][facet].data[j].category) :
              j \in {k \in 1..Len(packages[i][facet].data) :
                       packages[i][facet].data[k].category # None}} :
           i \in 1..Len(packages)}

Listed(chart, c, total) ==
    \E i \in 1..Len(chart.labels) : chart.labels[i] = c /\ chart.data[i] = total

StrictlyDescending(data) == \A i, j \in 1..Len(data) : i < j => data[i] > data[j]
NonIncreasing(data) == \A i, j \in 1..Len(data) : i < j => data[i] >= data[j]

\* whether the chart of the facet drops nothing: the systems chart never
\* does, the versions chart only past ten categories
Uncut(facet, cats) == facet = "system" \/ Cardinality(cats) <= 10

ChartOf(facet) ==
    IF facet = "system" THEN systemsChart ELSE pythonVersionsChart

CategoricalFacets == {"python_versions", "system"}

\* C2 as stated: every category that is neither absent nor "null" has the
\* sum of its entries' downloads as its total, and the totals are strictly
\* descending.
C2_Original ==
    \A facet \in CategoricalFacets :
        IsSome(ChartOf(facet)) =>
            LET chart == Val(ChartOf(facet))
                cats == CategoriesIn(Packages, facet) \ {"null"}
            IN  /\ Uncut(facet, cats) =>
                     \A c \in cats : Listed(chart, c, SumOfCategory(Packages, facet, c))
                /\ StrictlyDescending(chart.data)

\* C2 amended: every category that is neither absent, empty nor "null" has
\* the sum of its entries' downloads over all packages as its total, and the
\* totals are in non-increasing order (equal totals stay next to each other).
C2_TotalsSummedAndRanked ==
    \A facet \in CategoricalFacets :
        IsSome(ChartOf(facet)) =>
            LET chart == Val(ChartOf(facet))
                cats == CategoriesIn(Packages, facet) \ {"null", ""}
            IN  /\ Uncut(facet, cats) =>
                     \A c \in cats : Listed(chart, c, SumOfCategory(Packages, facet, c))
                /\ \A i \in 1..Len(chart.labels) :
                     chart.data[i] = SumOfCategory(Packages, facet, chart.labels[i])
                /\ NonIncreasing(chart.data)

\* two packages add up per category: Linux 90 + 90, Darwin 40 + 100
C2_Witness ==
    /\ IsSome(systemsChart)
    /\ Len(Packages) = 2
    /\ Val(systemsChart).labels = <<"Linux", "Darwin">>
    /\ Val(systemsChart).data = <<180, 140>>

\* an entry that the categorical aggregation is to ignore
Unknown(item) == item.category = None \/ item.category = Some("null")
Known(item) == ~Unknown(item)

WithoutUnknown(facet) ==
    IF facet.kind = "array" THEN ArrayData(SelectSeq(facet.data, Known)) ELSE facet

\* the packages with the entries of absent or "null" category removed
Cleaned(packages) ==
    [i \in 1..Len(packages) |->
        [packages[i] EXCEPT !.python_versions = WithoutUnknown(@),
                            !.system = WithoutUnknown(@)]]

\* C3: in both categorical charts "null" is no category of the ranked list,
\* and the list is the one the snapshot gives with every entry of absent or
\* "null" category removed: such an entry contributes to no total.
C3_UnknownNeverCounted ==
    /\ IsSome(pythonVersionsChart) =>
          /\ "null" \notin Range(Val(pythonVersionsChart).labels)
          /\ Val(pythonVersionsChart).labels = Labels(sortedVersions(Cleaned(Packages)))
          /\ Val(pythonVersionsChart).data = Totals(sortedVersions(Cleaned(Packages)))
    /\ IsSome(systemsChart) =>
          /\ "null" \notin Range(Val(systemsChart).labels)
          /\ Val(systemsChart).labels = Labels(sortedSystems(Cleaned(Packages)))
          /\ Val(systemsChart).data = Totals(sortedSystems(Cleaned(Packages)))

\* a "null" entry of 999 downloads beside ranked categories
C3_Witness ==
    /\ IsSome(pythonVersionsChart)
    /\ \E i \in 1..Len(Packages) :
         \E j \in 1..Len(Packages[i].python_versions.data) :
            /\ Packages[i].python_versions.data[j].category = Some("null")
            /\ Packages[i].python_versions.data[j].downloads = Some(999)
    /\ Len(Val(pythonVersionsChart).labels) = 2

\* the categories the aggregation ranks: present, not empty, not "null"
Ranked(packages, facet) == CategoriesIn(packages, facet) \ {"null", ""}

Distinct(s) == \A i, j \in 1..Len(s) : s[i] = s[j] => i = j

\* C4: the interpreter-version list has at most 10 entries, which are the
\* categories of the largest totals (all of them when there are no more than
\* 10); the operating-system list holds every ranked category.
C4_TopTenAndUncapped ==
    /\ IsSome(pythonVersionsChart) =>
          LET chart == Val(pythonVersionsChart)
              cats == Ranked(Packages, "python_versions")
          IN  /\ Len(chart.labels) <= 10
              /\ Len(chart.labels) = Min(10, Cardinality(cats))
              /\ Distinct(chart.labels)
              /\ Range(chart.labels) \subseteq cats
              /\ \A c \in cats \ Range(chart.labels) :
                   \A i \in 1..Len(chart.data) :
                      SumOfCategory(Packages, "python_versions", c) <= chart.data[i]
    /\ IsSome(systemsChart) =>
          LET chart == Val(systemsChart)
              cats == Ranked(Packages, "system")
          IN  /\ Distinct(chart.labels)
              /\ Range(chart.labels) = cats

\* twelve categories in both facets: ten versions shown, twelve systems
C4_Witness ==
    /\ IsSome(pythonVersionsChart)
    /\ IsSome(systemsChart)
    /\ Cardinality(Ranked(Packages, "python_versions")) = 12
    /\ Len(Val(pythonVersionsChart).labels) = 10
    /\ Len(Val(systemsChart).labels) = 12

\* the points of a package that pass the category filter
Surviving(pkg) == SelectSeq(pkg.overall.data, OrganicOrEmpty)

DatasetLabels ==
    [i \in 1..Len(Val(trendsChart).datasets) |-> Val(trendsChart).datasets[i].label]

\* C5: the datasets of the trends chart are those of exactly the packages
\* with at least one point that passes the category filter, one dataset
\* each; a package with no overall facet, an empty series or only filtered
\* points has none.
C5_DatasetIffSurvivingPoint ==
    IsSome(trendsChart) =>
        /\ Distinct(DatasetLabels)
        /\ Range(DatasetLabels) =
              {Packages[i].name : i \in {k \in 1..Len(Packages) :
                                           Len(Surviving(Packages[k])) > 0}}
        /\ \A i \in 1..Len(Val(trendsChart).datasets) :
              Len(Val(trendsChart).datasets[i].data) > 0

\* two packages, the first with only a with_mirrors point, the second with
\* an organic one: one dataset, of the second
C5_Witness ==
    /\ IsSome(trendsChart)
    /\ Len(Packages) = 2
    /\ Len(Packages[1].overall.data) = 1
    /\ Packages[1].overall.data[1].category = Some("with_mirrors")
    /\ DatasetLabels = <<Packages[2].name>>

\* the snapshot's value of a recent field, 0 when it, data or recent is absent
RecentValue(pkg, f) ==
    IF pkg.recent.kind = "object" /\ pkg.recent.data[f] # None
    THEN Val(pkg.recent.data[f]) ELSE 0

CardOf(name) ==
    summaryCards.cards[CHOOSE i \in 1..Len(summaryCards.cards) :
                          summaryCards.cards[i].name = name]

\* C6: every package has a card, and the card shows the six recent fields,
\* each the snapshot's value when present and 0 when absent.
C6_RecentWindowDefaults ==
    summaryCards.html = "cards" =>
        /\ Len(summaryCards.cards) = Len(Packages)
        /\ \A i \in 1..Len(Packages) :
              /\ \E j \in 1..Len(summaryCards.cards) :
                    summaryCards.cards[j].name = Packages[i].name
              /\ \A f \in RecentFields :
                    CardOf(Packages[i].name).stats[f]
                        = formatNumber(Some(RecentValue(Packages[i], f)))

\* a package whose recent facet has organic values and lacks other fields
C6_Witness ==
    /\ summaryCards.html = "cards"
    /\ Len(Packages) = 1
    /\ Packages[1].recent.kind = "object"
    /\ Packages[1].recent.data.last_day = None
    /\ Packages[1].recent.data.last_month = Some(1234567)
    /\ summaryCards.cards[1].stats.last_day = <<0>>
    /\ summaryCards.cards[1].stats.last_month = <<1, 234, 567>>
    /\ summaryCards.cards[1].stats.last_week_without_mirrors = <<350>>

NothingRendered ==
    /\ lastUpdated = None
    /\ summaryCards.cards = <<>>
    /\ trendsChart = None
    /\ pythonVersionsChart = None
    /\ systemsChart = None

EverythingRendered ==
    /\ lastUpdated # None
    /\ summaryCards.html = "cards"
    /\ trendsChart # None
    /\ pythonVersionsChart # None
    /\ systemsChart # None

HttpFailed == IsSome(response) /\ ~Val(response).ok

\* C7: after a response with a non-success status loadStats has taken its
\* error path: the error is logged, #summaryCards shows the message, and no
\* cards, charts or last-updated text are rendered.
C7_HttpErrorShowsMessageOnly ==
    HttpFailed =>
        /\ pc = "done"
        /\ statsData = None
        /\ Len(console) = 1
        /\ console[1].name = "Error"
        /\ summaryCards.html = "error"
        /\ summaryCards.message = console[1].message
        /\ NothingRendered

C7_Witness ==
    /\ HttpFailed
    /\ Val(response).status = 404
    /\ summaryCards.message = "HTTP error! status: 404"

\* C8 as stated: when loadStats has finished, either every view has been
\* produced or none has.
C8_AllOrNothing ==
    pc = "done" => EverythingRendered \/ NothingRendered

\* C9 as stated: once a snapshot with its packages has been parsed, no
\* per-package field makes the aggregation raise an error, and all views are
\* produced.
C9_AggregationNeverThrows ==
    (pc = "done" /\ Loaded) => (console = <<>> /\ EverythingRendered)

\* C10 as stated: a snapshot whose last_updated is not a parseable
\* timestamp takes the error path and renders no cards or charts; a snapshot
\* with no packages loads without error and renders no cards and no series.
C10_UnparseableTimestampFails ==
    (pc = "done" /\ IsSome(statsData)) =>
        /\ Val(statsData).last_updated # Some(ValidTimestamp) =>
              /\ summaryCards.html = "error"
              /\ trendsChart = None
              /\ pythonVersionsChart = None
              /\ systemsChart = None
        /\ (Val(statsData).last_updated = Some(ValidTimestamp)
                /\ Val(statsData).packages = Some(<<>>)) =>
              /\ console = <<>>
              /\ summaryCards = [html |-> "cards", cards |-> <<>>, message |-> ""]
              /\ Val(trendsChart).datasets = <<>>

\* the views, as the aggregation gives them for the given packages
ViewsOf(packages, cards, trends, versions, systems) ==
    /\ cards.html = "cards" => cards = SummaryHtml(packages)
    /\ IsSome(trends) =>
          Val(trends).datasets = datasets(ObjectEntries(packages), 0)
    /\ IsSome(versions) =>
          /\ Val(versions).labels = Labels(sortedVersions(packages))
          /\ Val(versions).data = Totals(sortedVersions(packages))
    /\ IsSome(systems) =>
          /\ Val(systems).labels = Labels(sortedSystems(packages))
          /\ Val(systems).data = Totals(sortedSystems(packages))

\* C11: no step after the snapshot is loaded changes it (the facets of every
\* package, the order of overall.data included), and every view on the page
\* after the step is the one the aggregation gives again when it is run on
\* the snapshot as it is after the step.
C11_SnapshotNeverModified ==
    [][IsSome(statsData) =>
          /\ statsData' = statsData
          /\ ViewsOf(Val(Val(statsData').packages), summaryCards', trendsChart',
                     pythonVersionsChart', systemsChart')]_vars

\* a package whose two organic points are out of order in the snapshot: the
\* series is sorted, overall.data still is not
C11_Witness ==
    /\ IsSome(trendsChart)
    /\ Len(Packages) = 1
    /\ Packages[1].overall.data =
          <<[date |-> Some("2025-01-02"), downloads |-> Some(3), category |-> None],
            [date |-> Some("2025-01-01"), downloads |-> None, category |-> None]>>
    /\ SeriesOf(Packages[1].name) =
          <<[x |-> Some("2025-01-01"), y |-> 0], [x |-> Some("2025-01-02"), y |-> 3]>>

\* the fetches that have been issued and are not yet settled
InFlight == IF pc = "fetch" THEN 1 ELSE 0

\* C12: loadStats is started once, by DOMContentLoaded, and never again: one
\* fetch has been issued as soon as the load has started and none before, at
\* most one fetch is in flight, and once an error has been caught the load is
\* over with that single fetch issued and that single error reported.
C12_LoadIsOneShot ==
    /\ fetches = (IF pc = "idle" THEN 0 ELSE 1)
    /\ InFlight <= 1
    /\ console # <<>> => pc = "done" /\ InFlight = 0 /\ fetches = 1 /\ Len(console) = 1

\* the fetch was rejected, and the load is over after its one fetch
C12_Witness ==
    /\ pc = "done"
    /\ fetches = 1
    /\ console # <<>>
    /\ console[1].message = "Failed to fetch"

\* the dates of the points of a sequence
DatesOf(points) == {points[i].date : i \in 1..Len(points)}

\* C13: for every package the series has as many points as passed the
\* category filter, and for every date the points of the series with that
\* date are the surviving points with that date, each with its own downloads
\* and in the order they have in overall.data: none merged, none summed.
C13_SameDatePointsAllKeptInOrder ==
    IsSome(trendsChart) =>
        \A i \in 1..Len(Packages) :
            LET series == SeriesOf(Packages[i].name)
                kept == Surviving(Packages[i])
            IN  /\ Len(series) = Len(kept)
                /\ \A d \in DatesOf(kept) :
                      SelectSeq(series, LAMBDA p : p.x = d) =
                      AsSeries(SelectSeq(kept, LAMBDA q : q.date = d))

\* two organic points of the same date, 3 downloads then none: both in the
\* series, in that order
C13_Witness ==
    /\ IsSome(trendsChart)
    /\ Len(Packages) = 1
    /\ Len(Packages[1].overall.data) = 2
    /\ SeriesOf(Packages[1].name) =
          <<[x |-> Some("2025-01-01"), y |-> 3], [x |-> Some("2025-01-01"), y |-> 0]>>

CardNames == [i \in 1..Len(summaryCards.cards) |-> summaryCards.cards[i].name]

\* the place of e in s
Pos(s, e) == CHOOSE i \in 1..Len(s) : s[i] = e

\* C14 as stated: the cards, and the datasets among the packages that have
\* one, are in the order in which the document lists the packages.
C14_Original ==
    /\ summaryCards.html = "cards" => CardNames = PackageNames(Packages)
    /\ IsSome(trendsChart) =>
          DatasetLabels =
             SelectSeq(PackageNames(Packages), LAMBDA n : n \in Range(DatasetLabels))

\* a comes before b: names that are canonical array indices first, ascending
\* by value, then the other names as the document lists them
RenderedBefore(a, b) ==
    \/ IsIndexKey(a) /\ IsIndexKey(b) /\ ArrayIndex(a) < ArrayIndex(b)
    \/ IsIndexKey(a) /\ IsNameKey(b)
    \/ /\ IsNameKey(a) /\ IsNameKey(b)
       /\ Pos(PackageNames(Packages), a) < Pos(PackageNames(Packages), b)

InRenderedOrder(s) == \A i, j \in 1..Len(s) : i < j => RenderedBefore(s[i], s[j])

\* C14: the cards are those of all packages, and cards and datasets are in
\* the order of the document among the packages whose name is not a
\* canonical array index; the packages whose name is one come before all
\* others, ascending by numeric value.
C14_PackagesInEnumerationOrder ==
    /\ summaryCards.html = "cards" =>
          /\ Range(CardNames) = Range(PackageNames(Packages))
          /\ InRenderedOrder(CardNames)
    /\ IsSome(trendsChart) => InRenderedOrder(DatasetLabels)

\* "osslili" then "7" in the document: the card and the dataset of "7" first
C14_Witness ==
    /\ IsSome(trendsChart)
    /\ PackageNames(Packages) = <<"osslili", "7">>
    /\ CardNames = <<"7", "osslili">>
    /\ DatasetLabels = <<"7", "osslili">>

\* the dates of the points of all packages that pass the category filter
SurvivingDates == UNION {DatesOf(Surviving(Packages[i])) : i \in 1..Len(Packages)}

\* the dates that occur in overall.data of some package
AllPointDates ==
    UNION {DatesOf(Packages[i].overall.data) : i \in 1..Len(Packages)}

\* C15: once the trends chart is built, the collected dates are exactly the
\* dates of the points that pass the category filter, over all packages: a
\* date found only on filtered-out points is not collected, and the date of
\* every point of every series is.
C15_DatesAreThoseOfSurvivingPoints ==
    IsSome(trendsChart) =>
        /\ allDates = SurvivingDates
        /\ \A d \in AllPointDates \ SurvivingDates : d \notin allDates
        /\ \A i \in 1..Len(Val(trendsChart).datasets) :
              \A k \in 1..Len(Val(trendsChart).datasets[i].data) :
                 Val(trendsChart).datasets[i].data[k].x \in allDates

\* one package, a with_mirrors point of 1 January and an organic point of
\* 2 January: only 2 January is collected
C15_Witness ==
    /\ IsSome(trendsChart)
    /\ Len(Packages) = 1
    /\ Len(Packages[1].overall.data) = 2
    /\ Packages[1].overall.data[1].date = Some("2025-01-01")
    /\ Packages[1].overall.data[1].category = Some("with_mirrors")
    /\ Len(SeriesOf(Packages[1].name)) = 1
    /\ allDates = {Some("2025-01-02")}

RECURSIVE Concat(_)
Concat(ss) == IF ss = <<>> THEN <<>> ELSE ss[1] \o Concat(Tail(ss))

\* the entries of the facet of the given packages, one package after the other
EntriesOf(packages, facet) ==
    Concat([i \in 1..Len(packages) |-> packages[i][facet].data])

\* where category c is first met in the entries
FirstAt(entries, c) ==
    CHOOSE i \in 1..Len(entries) :
        /\ entries[i].category = Some(c)
        /\ \A j \in 1..(i - 1) : entries[j].category # Some(c)

\* the labels of equal total are in the order given by Before
TiesOrdered(chart, Before(_, _)) ==
    \A i, j \in 1..Len(chart.labels) :
        (i < j /\ chart.data[i] = chart.data[j]) => Before(chart.labels[i], chart.labels[j])

\* c is first met before d, the packages taken as the document lists them
FirstSeenBefore(facet, c, d) ==
    FirstAt(EntriesOf(Packages, facet), c) < FirstAt(EntriesOf(Packages, facet), d)

\* C16 as stated: in both charts two categories of equal total are in the
\* order in which they are first met, package after package as the document
\* lists them and entry after entry.
C16_Original ==
    /\ IsSome(pythonVersionsChart) =>
          TiesOrdered(Val(pythonVersionsChart),
                      LAMBDA c, d : FirstSeenBefore("python_versions", c, d))
    /\ IsSome(systemsChart) =>
          TiesOrdered(Val(systemsChart), LAMBDA c, d : FirstSeenBefore("system", c, d))

\* the packages in the order they are enumerated: each after the packages
\* rendered before it
Enumerated ==
    [i \in 1..Len(Packages) |->
        CHOOSE p \in Range(Packages) :
            Cardinality({q \in Range(Packages) : RenderedBefore(q.name, p.name)}) = i - 1]

\* c is ranked before d when their totals are equal: categories that are
\* canonical array indices first, ascending by value, then the other
\* categories as first met over the enumerated packages
TieBefore(facet, c, d) ==
    \/ IsIndexKey(c) /\ IsIndexKey(d) /\ ArrayIndex(c) < ArrayIndex(d)
    \/ IsIndexKey(c) /\ IsNameKey(d)
    \/ /\ IsNameKey(c) /\ IsNameKey(d)
       /\ FirstAt(EntriesOf(Enumerated, facet), c) < FirstAt(EntriesOf(Enumerated, facet), d)

\* C16: in both charts two categories of equal total are in the enumeration
\* order of the totals: integer-like categories first, ascending, then the
\* other categories in the order they are first met, the packages taken in
\* their enumeration order and each facet's entries in sequence order.
C16_TiesInEnumerationOrder ==
    /\ IsSome(pythonVersionsChart) =>
          TiesOrdered(Val(pythonVersionsChart),
                      LAMBDA c, d : TieBefore("python_versions", c, d))
    /\ IsSome(systemsChart) =>
          TiesOrdered(Val(systemsChart), LAMBDA c, d : TieBefore("system", c, d))

\* "3.9" in the first package and "3" in the second, one download each:
\* "3" is listed first
C16_Witness ==
    /\ IsSome(pythonVersionsChart)
    /\ PackageNames(Packages) = <<"osslili", "upmex">>
    /\ Len(Packages[1].python_versions.data) = 1
    /\ Packages[1].python_versions.data[1].category = Some("3.9")
    /\ Val(pythonVersionsChart).labels = <<"3", "3.9">>
    /\ Val(pythonVersionsChart).data = <<1, 1>>

=============================================================================
